---- MODULE Spec2Model ----
(***************************************************************************)
(* Model of the KBB style crawler (src/app/scrapper/kbb.py).               *)
(*                                                                         *)
(* A Python string is modelled as the sequence of its Unicode code points, *)
(* so that split, strip, lower, capitalize and the substring test are      *)
(* computed rather than assumed, on every character Python knows.  The     *)
(* case and whitespace tables are those of Unicode 14.0.0.  Python's      *)
(* None is the value None below.                                           *)
(***************************************************************************)
EXTENDS Integers, Sequences, FiniteSets, TLC

(***************************************************************************)
(* Bounds of the model.                                                    *)
(***************************************************************************)
\* Largest number of text lines of a card drawn for the parser.
MaxLines == 7
\* Largest number of category tabs a page shows.
MaxTabs == 2
\* Largest number of style cards the site shows over the whole crawl (a single
\* content region may show all of them).
MaxCards == 2

(***************************************************************************)
(* Python values and string primitives.                                    *)
(***************************************************************************)
\* Python's None: a value that is no string (no sequence of code points).
None == <<-1>>

\* The printable ASCII characters from the space to the underscore, code
\* points 32 to 95 in order, and from "a" to the tilde, code points 97 to 126.
AsciiLow ==
    <<" ","!","\"","#","$","%","&","'","(",")","*","+",",","-",".","/",
      "0","1","2","3","4","5","6","7","8","9",":",";","<","=",">","?",
      "@","A","B","C","D","E","F","G","H","I","J","K","L","M","N","O",
      "P","Q","R","S","T","U","V","W","X","Y","Z","[","\\","]","^","_">>

AsciiHigh ==
    <<"a","b","c","d","e","f","g","h","i","j","k","l","m","n","o","p",
      "q","r","s","t","u","v","w","x","y","z","{","|","}","~">>

\* ord(ch), for a character of AsciiLow or AsciiHigh
Ord(ch) ==
    IF \E i \in 1..Len(AsciiLow) : AsciiLow[i] = ch
    THEN 31 + (CHOOSE i \in 1..Len(AsciiLow) : AsciiLow[i] = ch)
    ELSE 96 + (CHOOSE i \in 1..Len(AsciiHigh) : AsciiHigh[i] = ch)

\* The string with the given printable ASCII characters.
Str(chars) == [i \in 1..Len(chars) |-> Ord(chars[i])]

\* "\n"
NewlineChar == 10

\* The code points str.strip() removes (str.isspace()).
Whitespace == {9, 10, 11, 12, 13, 28, 29, 30, 31, 32, 133, 160, 5760, 8192, 8193, 8194, 8195, 8196, 8197, 8198, 8199, 8200, 8201, 8202, 8232, 8233, 8239, 8287, 12288}

\* Case mappings of the non-ASCII code points that map to one code point:
\* <<first, last, stride, delta>> maps first, first+stride, ..., last to
\* themselves plus delta.
LowerRanges == {
    <<192,214,1,32>>, <<216,222,1,32>>, <<256,302,2,1>>, <<306,310,2,1>>, <<313,327,2,1>>, <<330,374,2,1>>,
    <<376,376,1,-121>>, <<377,381,2,1>>, <<385,385,1,210>>, <<386,388,2,1>>, <<390,390,1,206>>, <<391,391,1,1>>,
    <<393,394,1,205>>, <<395,395,1,1>>, <<398,398,1,79>>, <<399,399,1,202>>, <<400,400,1,203>>, <<401,401,1,1>>,
    <<403,403,1,205>>, <<404,404,1,207>>, <<406,406,1,211>>, <<407,407,1,209>>, <<408,408,1,1>>, <<412,412,1,211>>,
    <<413,413,1,213>>, <<415,415,1,214>>, <<416,420,2,1>>, <<422,422,1,218>>, <<423,423,1,1>>, <<425,425,1,218>>,
    <<428,428,1,1>>, <<430,430,1,218>>, <<431,431,1,1>>, <<433,434,1,217>>, <<435,437,2,1>>, <<439,439,1,219>>,
    <<440,440,1,1>>, <<444,444,1,1>>, <<452,452,1,2>>, <<453,453,1,1>>, <<455,455,1,2>>, <<456,456,1,1>>,
    <<458,458,1,2>>, <<459,475,2,1>>, <<478,494,2,1>>, <<497,497,1,2>>, <<498,500,2,1>>, <<502,502,1,-97>>,
    <<503,503,1,-56>>, <<504,542,2,1>>, <<544,544,1,-130>>, <<546,562,2,1>>, <<570,570,1,10795>>, <<571,571,1,1>>,
    <<573,573,1,-163>>, <<574,574,1,10792>>, <<577,577,1,1>>, <<579,579,1,-195>>, <<580,580,1,69>>, <<581,581,1,71>>,
    <<582,590,2,1>>, <<880,882,2,1>>, <<886,886,1,1>>, <<895,895,1,116>>, <<902,902,1,38>>, <<904,906,1,37>>,
    <<908,908,1,64>>, <<910,911,1,63>>, <<913,929,1,32>>, <<932,939,1,32>>, <<975,975,1,8>>, <<984,1006,2,1>>,
    <<1012,1012,1,-60>>, <<1015,1015,1,1>>, <<1017,1017,1,-7>>, <<1018,1018,1,1>>, <<1021,1023,1,-130>>, <<1024,1039,1,80>>,
    <<1040,1071,1,32>>, <<1120,1152,2,1>>, <<1162,1214,2,1>>, <<1216,1216,1,15>>, <<1217,1229,2,1>>, <<1232,1326,2,1>>,
    <<1329,1366,1,48>>, <<4256,4293,1,7264>>, <<4295,4295,1,7264>>, <<4301,4301,1,7264>>, <<5024,5103,1,38864>>, <<5104,5109,1,8>>,
    <<7312,7354,1,-3008>>, <<7357,7359,1,-3008>>, <<7680,7828,2,1>>, <<7838,7838,1,-7615>>, <<7840,7934,2,1>>, <<7944,7951,1,-8>>,
    <<7960,7965,1,-8>>, <<7976,7983,1,-8>>, <<7992,7999,1,-8>>, <<8008,8013,1,-8>>, <<8025,8031,2,-8>>, <<8040,8047,1,-8>>,
    <<8072,8079,1,-8>>, <<8088,8095,1,-8>>, <<8104,8111,1,-8>>, <<8120,8121,1,-8>>, <<8122,8123,1,-74>>, <<8124,8124,1,-9>>,
    <<8136,8139,1,-86>>, <<8140,8140,1,-9>>, <<8152,8153,1,-8>>, <<8154,8155,1,-100>>, <<8168,8169,1,-8>>, <<8170,8171,1,-112>>,
    <<8172,8172,1,-7>>, <<8184,8185,1,-128>>, <<8186,8187,1,-126>>, <<8188,8188,1,-9>>, <<8486,8486,1,-7517>>, <<8490,8490,1,-8383>>,
    <<8491,8491,1,-8262>>, <<8498,8498,1,28>>, <<8544,8559,1,16>>, <<8579,8579,1,1>>, <<9398,9423,1,26>>, <<11264,11311,1,48>>,
    <<11360,11360,1,1>>, <<11362,11362,1,-10743>>, <<11363,11363,1,-3814>>, <<11364,11364,1,-10727>>, <<11367,11371,2,1>>, <<11373,11373,1,-10780>>,
    <<11374,11374,1,-10749>>, <<11375,11375,1,-10783>>, <<11376,11376,1,-10782>>, <<11378,11378,1,1>>, <<11381,11381,1,1>>, <<11390,11391,1,-10815>>,
    <<11392,11490,2,1>>, <<11499,11501,2,1>>, <<11506,11506,1,1>>, <<42560,42604,2,1>>, <<42624,42650,2,1>>, <<42786,42798,2,1>>,
    <<42802,42862,2,1>>, <<42873,42875,2,1>>, <<42877,42877,1,-35332>>, <<42878,42886,2,1>>, <<42891,42891,1,1>>, <<42893,42893,1,-42280>>,
    <<42896,42898,2,1>>, <<42902,42920,2,1>>, <<42922,42922,1,-42308>>, <<42923,42923,1,-42319>>, <<42924,42924,1,-42315>>, <<42925,42925,1,-42305>>,
    <<42926,42926,1,-42308>>, <<42928,42928,1,-42258>>, <<42929,42929,1,-42282>>, <<42930,42930,1,-42261>>, <<42931,42931,1,928>>, <<42932,42946,2,1>>,
    <<42948,42948,1,-48>>, <<42949,42949,1,-42307>>, <<42950,42950,1,-35384>>, <<42951,42953,2,1>>, <<42960,42960,1,1>>, <<42966,42968,2,1>>,
    <<42997,42997,1,1>>, <<65313,65338,1,32>>, <<66560,66599,1,40>>, <<66736,66771,1,40>>, <<66928,66938,1,39>>, <<66940,66954,1,39>>,
    <<66956,66962,1,39>>, <<66964,66965,1,39>>, <<68736,68786,1,64>>, <<71840,71871,1,32>>, <<93760,93791,1,32>>, <<125184,125217,1,34>> }

\* Code points whose lower-case form is more than one code point.
LowerSpecial == {
    <<304,<<105,775>>>> }

TitleRanges == {
    <<181,181,1,743>>, <<224,246,1,-32>>, <<248,254,1,-32>>, <<255,255,1,121>>, <<257,303,2,-1>>, <<305,305,1,-232>>,
    <<307,311,2,-1>>, <<314,328,2,-1>>, <<331,375,2,-1>>, <<378,382,2,-1>>, <<383,383,1,-300>>, <<384,384,1,195>>,
    <<387,389,2,-1>>, <<392,392,1,-1>>, <<396,396,1,-1>>, <<402,402,1,-1>>, <<405,405,1,97>>, <<409,409,1,-1>>,
    <<410,410,1,163>>, <<414,414,1,130>>, <<417,421,2,-1>>, <<424,424,1,-1>>, <<429,429,1,-1>>, <<432,432,1,-1>>,
    <<436,438,2,-1>>, <<441,441,1,-1>>, <<445,445,1,-1>>, <<447,447,1,56>>, <<452,452,1,1>>, <<454,454,1,-1>>,
    <<455,455,1,1>>, <<457,457,1,-1>>, <<458,458,1,1>>, <<460,476,2,-1>>, <<477,477,1,-79>>, <<479,495,2,-1>>,
    <<497,497,1,1>>, <<499,501,2,-1>>, <<505,543,2,-1>>, <<547,563,2,-1>>, <<572,572,1,-1>>, <<575,576,1,10815>>,
    <<578,578,1,-1>>, <<583,591,2,-1>>, <<592,592,1,10783>>, <<593,593,1,10780>>, <<594,594,1,10782>>, <<595,595,1,-210>>,
    <<596,596,1,-206>>, <<598,599,1,-205>>, <<601,601,1,-202>>, <<603,603,1,-203>>, <<604,604,1,42319>>, <<608,608,1,-205>>,
    <<609,609,1,42315>>, <<611,611,1,-207>>, <<613,613,1,42280>>, <<614,614,1,42308>>, <<616,616,1,-209>>, <<617,617,1,-211>>,
    <<618,618,1,42308>>, <<619,619,1,10743>>, <<620,620,1,42305>>, <<623,623,1,-211>>, <<625,625,1,10749>>, <<626,626,1,-213>>,
    <<629,629,1,-214>>, <<637,637,1,10727>>, <<640,640,1,-218>>, <<642,642,1,42307>>, <<643,643,1,-218>>, <<647,647,1,42282>>,
    <<648,648,1,-218>>, <<649,649,1,-69>>, <<650,651,1,-217>>, <<652,652,1,-71>>, <<658,658,1,-219>>, <<669,669,1,42261>>,
    <<670,670,1,42258>>, <<837,837,1,84>>, <<881,883,2,-1>>, <<887,887,1,-1>>, <<891,893,1,130>>, <<940,940,1,-38>>,
    <<941,943,1,-37>>, <<945,961,1,-32>>, <<962,962,1,-31>>, <<963,971,1,-32>>, <<972,972,1,-64>>, <<973,974,1,-63>>,
    <<976,976,1,-62>>, <<977,977,1,-57>>, <<981,981,1,-47>>, <<982,982,1,-54>>, <<983,983,1,-8>>, <<985,1007,2,-1>>,
    <<1008,1008,1,-86>>, <<1009,1009,1,-80>>, <<1010,1010,1,7>>, <<1011,1011,1,-116>>, <<1013,1013,1,-96>>, <<1016,1016,1,-1>>,
    <<1019,1019,1,-1>>, <<1072,1103,1,-32>>, <<1104,1119,1,-80>>, <<1121,1153,2,-1>>, <<1163,1215,2,-1>>, <<1218,1230,2,-1>>,
    <<1231,1231,1,-15>>, <<1233,1327,2,-1>>, <<1377,1414,1,-48>>, <<5112,5117,1,-8>>, <<7296,7296,1,-6254>>, <<7297,7297,1,-6253>>,
    <<7298,7298,1,-6244>>, <<7299,7300,1,-6242>>, <<7301,7301,1,-6243>>, <<7302,7302,1,-6236>>, <<7303,7303,1,-6181>>, <<7304,7304,1,35266>>,
    <<7545,7545,1,35332>>, <<7549,7549,1,3814>>, <<7566,7566,1,35384>>, <<7681,7829,2,-1>>, <<7835,7835,1,-59>>, <<7841,7935,2,-1>>,
    <<7936,7943,1,8>>, <<7952,7957,1,8>>, <<7968,7975,1,8>>, <<7984,7991,1,8>>, <<8000,8005,1,8>>, <<8017,8023,2,8>>,
    <<8032,8039,1,8>>, <<8048,8049,1,74>>, <<8050,8053,1,86>>, <<8054,8055,1,100>>, <<8056,8057,1,128>>, <<8058,8059,1,112>>,
    <<8060,8061,1,126>>, <<8064,8071,1,8>>, <<8080,8087,1,8>>, <<8096,8103,1,8>>, <<8112,8113,1,8>>, <<8115,8115,1,9>>,
    <<8126,8126,1,-7205>>, <<8131,8131,1,9>>, <<8144,8145,1,8>>, <<8160,8161,1,8>>, <<8165,8165,1,7>>, <<8179,8179,1,9>>,
    <<8526,8526,1,-28>>, <<8560,8575,1,-16>>, <<8580,8580,1,-1>>, <<9424,9449,1,-26>>, <<11312,11359,1,-48>>, <<11361,11361,1,-1>>,
    <<11365,11365,1,-10795>>, <<11366,11366,1,-10792>>, <<11368,11372,2,-1>>, <<11379,11379,1,-1>>, <<11382,11382,1,-1>>, <<11393,11491,2,-1>>,
    <<11500,11502,2,-1>>, <<11507,11507,1,-1>>, <<11520,11557,1,-7264>>, <<11559,11559,1,-7264>>, <<11565,11565,1,-7264>>, <<42561,42605,2,-1>>,
    <<42625,42651,2,-1>>, <<42787,42799,2,-1>>, <<42803,42863,2,-1>>, <<42874,42876,2,-1>>, <<42879,42887,2,-1>>, <<42892,42892,1,-1>>,
    <<42897,42899,2,-1>>, <<42900,42900,1,48>>, <<42903,42921,2,-1>>, <<42933,42947,2,-1>>, <<42952,42954,2,-1>>, <<42961,42961,1,-1>>,
    <<42967,42969,2,-1>>, <<42998,42998,1,-1>>, <<43859,43859,1,-928>>, <<43888,43967,1,-38864>>, <<65345,65370,1,-32>>, <<66600,66639,1,-40>>,
    <<66776,66811,1,-40>>, <<66967,66977,1,-39>>, <<66979,66993,1,-39>>, <<66995,67001,1,-39>>, <<67003,67004,1,-39>>, <<68800,68850,1,-64>>,
    <<71872,71903,1,-32>>, <<93792,93823,1,-32>>, <<125218,125251,1,-34>> }

\* Code points whose title-case form is more than one code point.
TitleSpecial == {
    <<223,<<83,115>>>>, <<329,<<700,78>>>>, <<496,<<74,780>>>>, <<912,<<921,776,769>>>>,
    <<944,<<933,776,769>>>>, <<1415,<<1333,1410>>>>, <<7830,<<72,817>>>>, <<7831,<<84,776>>>>,
    <<7832,<<87,778>>>>, <<7833,<<89,778>>>>, <<7834,<<65,702>>>>, <<8016,<<933,787>>>>,
    <<8018,<<933,787,768>>>>, <<8020,<<933,787,769>>>>, <<8022,<<933,787,834>>>>, <<8114,<<8122,837>>>>,
    <<8116,<<902,837>>>>, <<8118,<<913,834>>>>, <<8119,<<913,834,837>>>>, <<8130,<<8138,837>>>>,
    <<8132,<<905,837>>>>, <<8134,<<919,834>>>>, <<8135,<<919,834,837>>>>, <<8146,<<921,776,768>>>>,
    <<8147,<<921,776,769>>>>, <<8150,<<921,834>>>>, <<8151,<<921,776,834>>>>, <<8162,<<933,776,768>>>>,
    <<8163,<<933,776,769>>>>, <<8164,<<929,787>>>>, <<8166,<<933,834>>>>, <<8167,<<933,776,834>>>>,
    <<8178,<<8186,837>>>>, <<8180,<<911,837>>>>, <<8182,<<937,834>>>>, <<8183,<<937,834,837>>>>,
    <<64256,<<70,102>>>>, <<64257,<<70,105>>>>, <<64258,<<70,108>>>>, <<64259,<<70,102,105>>>>,
    <<64260,<<70,102,108>>>>, <<64261,<<83,116>>>>, <<64262,<<83,116>>>>, <<64275,<<1348,1398>>>>,
    <<64276,<<1348,1381>>>>, <<64277,<<1348,1387>>>>, <<64278,<<1358,1398>>>>, <<64279,<<1348,1389>>>> }

\* Ranges <<first, last>> of the cased code points that are not case-ignorable.
CasedRanges == {
    <<65,90>>, <<97,122>>, <<170,170>>, <<181,181>>, <<186,186>>, <<192,214>>, <<216,246>>,
    <<248,442>>, <<444,447>>, <<452,659>>, <<661,687>>, <<880,883>>, <<886,887>>, <<891,893>>,
    <<895,895>>, <<902,902>>, <<904,906>>, <<908,908>>, <<910,929>>, <<931,1013>>, <<1015,1153>>,
    <<1162,1327>>, <<1329,1366>>, <<1376,1416>>, <<4256,4293>>, <<4295,4295>>, <<4301,4301>>, <<4304,4346>>,
    <<4349,4351>>, <<5024,5109>>, <<5112,5117>>, <<7296,7304>>, <<7312,7354>>, <<7357,7359>>, <<7424,7467>>,
    <<7531,7543>>, <<7545,7578>>, <<7680,7957>>, <<7960,7965>>, <<7968,8005>>, <<8008,8013>>, <<8016,8023>>,
    <<8025,8025>>, <<8027,8027>>, <<8029,8029>>, <<8031,8061>>, <<8064,8116>>, <<8118,8124>>, <<8126,8126>>,
    <<8130,8132>>, <<8134,8140>>, <<8144,8147>>, <<8150,8155>>, <<8160,8172>>, <<8178,8180>>, <<8182,8188>>,
    <<8450,8450>>, <<8455,8455>>, <<8458,8467>>, <<8469,8469>>, <<8473,8477>>, <<8484,8484>>, <<8486,8486>>,
    <<8488,8488>>, <<8490,8493>>, <<8495,8500>>, <<8505,8505>>, <<8508,8511>>, <<8517,8521>>, <<8526,8526>>,
    <<8544,8575>>, <<8579,8580>>, <<9398,9449>>, <<11264,11387>>, <<11390,11492>>, <<11499,11502>>, <<11506,11507>>,
    <<11520,11557>>, <<11559,11559>>, <<11565,11565>>, <<42560,42605>>, <<42624,42651>>, <<42786,42863>>, <<42865,42887>>,
    <<42891,42894>>, <<42896,42954>>, <<42960,42961>>, <<42963,42963>>, <<42965,42969>>, <<42997,42998>>, <<43002,43002>>,
    <<43824,43866>>, <<43872,43880>>, <<43888,43967>>, <<64256,64262>>, <<64275,64279>>, <<65313,65338>>, <<65345,65370>>,
    <<66560,66639>>, <<66736,66771>>, <<66776,66811>>, <<66928,66938>>, <<66940,66954>>, <<66956,66962>>, <<66964,66965>>,
    <<66967,66977>>, <<66979,66993>>, <<66995,67001>>, <<67003,67004>>, <<68736,68786>>, <<68800,68850>>, <<71840,71903>>,
    <<93760,93823>>, <<119808,119892>>, <<119894,119964>>, <<119966,119967>>, <<119970,119970>>, <<119973,119974>>, <<119977,119980>>,
    <<119982,119993>>, <<119995,119995>>, <<119997,120003>>, <<120005,120069>>, <<120071,120074>>, <<120077,120084>>, <<120086,120092>>,
    <<120094,120121>>, <<120123,120126>>, <<120128,120132>>, <<120134,120134>>, <<120138,120144>>, <<120146,120485>>, <<120488,120512>>,
    <<120514,120538>>, <<120540,120570>>, <<120572,120596>>, <<120598,120628>>, <<120630,120654>>, <<120656,120686>>, <<120688,120712>>,
    <<120714,120744>>, <<120746,120770>>, <<120772,120779>>, <<122624,122633>>, <<122635,122654>>, <<125184,125251>>, <<127280,127305>>,
    <<127312,127337>>, <<127344,127369>> }

\* Ranges <<first, last>> of the case-ignorable code points.
IgnorableRanges == {
    <<39,39>>, <<46,46>>, <<58,58>>, <<94,94>>, <<96,96>>, <<168,168>>, <<173,173>>,
    <<175,175>>, <<180,180>>, <<183,184>>, <<688,879>>, <<884,885>>, <<890,890>>, <<900,901>>,
    <<903,903>>, <<1155,1161>>, <<1369,1369>>, <<1375,1375>>, <<1425,1469>>, <<1471,1471>>, <<1473,1474>>,
    <<1476,1477>>, <<1479,1479>>, <<1524,1524>>, <<1536,1541>>, <<1552,1562>>, <<1564,1564>>, <<1600,1600>>,
    <<1611,1631>>, <<1648,1648>>, <<1750,1757>>, <<1759,1768>>, <<1770,1773>>, <<1807,1807>>, <<1809,1809>>,
    <<1840,1866>>, <<1958,1968>>, <<2027,2037>>, <<2042,2042>>, <<2045,2045>>, <<2070,2093>>, <<2137,2139>>,
    <<2184,2184>>, <<2192,2193>>, <<2200,2207>>, <<2249,2306>>, <<2362,2362>>, <<2364,2364>>, <<2369,2376>>,
    <<2381,2381>>, <<2385,2391>>, <<2402,2403>>, <<2417,2417>>, <<2433,2433>>, <<2492,2492>>, <<2497,2500>>,
    <<2509,2509>>, <<2530,2531>>, <<2558,2558>>, <<2561,2562>>, <<2620,2620>>, <<2625,2626>>, <<2631,2632>>,
    <<2635,2637>>, <<2641,2641>>, <<2672,2673>>, <<2677,2677>>, <<2689,2690>>, <<2748,2748>>, <<2753,2757>>,
    <<2759,2760>>, <<2765,2765>>, <<2786,2787>>, <<2810,2815>>, <<2817,2817>>, <<2876,2876>>, <<2879,2879>>,
    <<2881,2884>>, <<2893,2893>>, <<2901,2902>>, <<2914,2915>>, <<2946,2946>>, <<3008,3008>>, <<3021,3021>>,
    <<3072,3072>>, <<3076,3076>>, <<3132,3132>>, <<3134,3136>>, <<3142,3144>>, <<3146,3149>>, <<3157,3158>>,
    <<3170,3171>>, <<3201,3201>>, <<3260,3260>>, <<3263,3263>>, <<3270,3270>>, <<3276,3277>>, <<3298,3299>>,
    <<3328,3329>>, <<3387,3388>>, <<3393,3396>>, <<3405,3405>>, <<3426,3427>>, <<3457,3457>>, <<3530,3530>>,
    <<3538,3540>>, <<3542,3542>>, <<3633,3633>>, <<3636,3642>>, <<3654,3662>>, <<3761,3761>>, <<3764,3772>>,
    <<3782,3782>>, <<3784,3789>>, <<3864,3865>>, <<3893,3893>>, <<3895,3895>>, <<3897,3897>>, <<3953,3966>>,
    <<3968,3972>>, <<3974,3975>>, <<3981,3991>>, <<3993,4028>>, <<4038,4038>>, <<4141,4144>>, <<4146,4151>>,
    <<4153,4154>>, <<4157,4158>>, <<4184,4185>>, <<4190,4192>>, <<4209,4212>>, <<4226,4226>>, <<4229,4230>>,
    <<4237,4237>>, <<4253,4253>>, <<4348,4348>>, <<4957,4959>>, <<5906,5908>>, <<5938,5939>>, <<5970,5971>>,
    <<6002,6003>>, <<6068,6069>>, <<6071,6077>>, <<6086,6086>>, <<6089,6099>>, <<6103,6103>>, <<6109,6109>>,
    <<6155,6159>>, <<6211,6211>>, <<6277,6278>>, <<6313,6313>>, <<6432,6434>>, <<6439,6440>>, <<6450,6450>>,
    <<6457,6459>>, <<6679,6680>>, <<6683,6683>>, <<6742,6742>>, <<6744,6750>>, <<6752,6752>>, <<6754,6754>>,
    <<6757,6764>>, <<6771,6780>>, <<6783,6783>>, <<6823,6823>>, <<6832,6862>>, <<6912,6915>>, <<6964,6964>>,
    <<6966,6970>>, <<6972,6972>>, <<6978,6978>>, <<7019,7027>>, <<7040,7041>>, <<7074,7077>>, <<7080,7081>>,
    <<7083,7085>>, <<7142,7142>>, <<7144,7145>>, <<7149,7149>>, <<7151,7153>>, <<7212,7219>>, <<7222,7223>>,
    <<7288,7293>>, <<7376,7378>>, <<7380,7392>>, <<7394,7400>>, <<7405,7405>>, <<7412,7412>>, <<7416,7417>>,
    <<7468,7530>>, <<7544,7544>>, <<7579,7679>>, <<8125,8125>>, <<8127,8129>>, <<8141,8143>>, <<8157,8159>>,
    <<8173,8175>>, <<8189,8190>>, <<8203,8207>>, <<8216,8217>>, <<8228,8228>>, <<8231,8231>>, <<8234,8238>>,
    <<8288,8292>>, <<8294,8303>>, <<8305,8305>>, <<8319,8319>>, <<8336,8348>>, <<8400,8432>>, <<11388,11389>>,
    <<11503,11505>>, <<11631,11631>>, <<11647,11647>>, <<11744,11775>>, <<11823,11823>>, <<12293,12293>>, <<12330,12333>>,
    <<12337,12341>>, <<12347,12347>>, <<12441,12446>>, <<12540,12542>>, <<40981,40981>>, <<42232,42237>>, <<42508,42508>>,
    <<42607,42610>>, <<42612,42621>>, <<42623,42623>>, <<42652,42655>>, <<42736,42737>>, <<42752,42785>>, <<42864,42864>>,
    <<42888,42890>>, <<42994,42996>>, <<43000,43001>>, <<43010,43010>>, <<43014,43014>>, <<43019,43019>>, <<43045,43046>>,
    <<43052,43052>>, <<43204,43205>>, <<43232,43249>>, <<43263,43263>>, <<43302,43309>>, <<43335,43345>>, <<43392,43394>>,
    <<43443,43443>>, <<43446,43449>>, <<43452,43453>>, <<43471,43471>>, <<43493,43494>>, <<43561,43566>>, <<43569,43570>>,
    <<43573,43574>>, <<43587,43587>>, <<43596,43596>>, <<43632,43632>>, <<43644,43644>>, <<43696,43696>>, <<43698,43700>>,
    <<43703,43704>>, <<43710,43711>>, <<43713,43713>>, <<43741,43741>>, <<43756,43757>>, <<43763,43764>>, <<43766,43766>>,
    <<43867,43871>>, <<43881,43883>>, <<44005,44005>>, <<44008,44008>>, <<44013,44013>>, <<64286,64286>>, <<64434,64450>>,
    <<65024,65039>>, <<65043,65043>>, <<65056,65071>>, <<65106,65106>>, <<65109,65109>>, <<65279,65279>>, <<65287,65287>>,
    <<65294,65294>>, <<65306,65306>>, <<65342,65342>>, <<65344,65344>>, <<65392,65392>>, <<65438,65439>>, <<65507,65507>>,
    <<65529,65531>>, <<66045,66045>>, <<66272,66272>>, <<66422,66426>>, <<67456,67461>>, <<67463,67504>>, <<67506,67514>>,
    <<68097,68099>>, <<68101,68102>>, <<68108,68111>>, <<68152,68154>>, <<68159,68159>>, <<68325,68326>>, <<68900,68903>>,
    <<69291,69292>>, <<69446,69456>>, <<69506,69509>>, <<69633,69633>>, <<69688,69702>>, <<69744,69744>>, <<69747,69748>>,
    <<69759,69761>>, <<69811,69814>>, <<69817,69818>>, <<69821,69821>>, <<69826,69826>>, <<69837,69837>>, <<69888,69890>>,
    <<69927,69931>>, <<69933,69940>>, <<70003,70003>>, <<70016,70017>>, <<70070,70078>>, <<70089,70092>>, <<70095,70095>>,
    <<70191,70193>>, <<70196,70196>>, <<70198,70199>>, <<70206,70206>>, <<70367,70367>>, <<70371,70378>>, <<70400,70401>>,
    <<70459,70460>>, <<70464,70464>>, <<70502,70508>>, <<70512,70516>>, <<70712,70719>>, <<70722,70724>>, <<70726,70726>>,
    <<70750,70750>>, <<70835,70840>>, <<70842,70842>>, <<70847,70848>>, <<70850,70851>>, <<71090,71093>>, <<71100,71101>>,
    <<71103,71104>>, <<71132,71133>>, <<71219,71226>>, <<71229,71229>>, <<71231,71232>>, <<71339,71339>>, <<71341,71341>>,
    <<71344,71349>>, <<71351,71351>>, <<71453,71455>>, <<71458,71461>>, <<71463,71467>>, <<71727,71735>>, <<71737,71738>>,
    <<71995,71996>>, <<71998,71998>>, <<72003,72003>>, <<72148,72151>>, <<72154,72155>>, <<72160,72160>>, <<72193,72202>>,
    <<72243,72248>>, <<72251,72254>>, <<72263,72263>>, <<72273,72278>>, <<72281,72283>>, <<72330,72342>>, <<72344,72345>>,
    <<72752,72758>>, <<72760,72765>>, <<72767,72767>>, <<72850,72871>>, <<72874,72880>>, <<72882,72883>>, <<72885,72886>>,
    <<73009,73014>>, <<73018,73018>>, <<73020,73021>>, <<73023,73029>>, <<73031,73031>>, <<73104,73105>>, <<73109,73109>>,
    <<73111,73111>>, <<73459,73460>>, <<78896,78904>>, <<92912,92916>>, <<92976,92982>>, <<92992,92995>>, <<94031,94031>>,
    <<94095,94111>>, <<94176,94177>>, <<94179,94180>>, <<110576,110579>>, <<110581,110587>>, <<110589,110590>>, <<113821,113822>>,
    <<113824,113827>>, <<118528,118573>>, <<118576,118598>>, <<119143,119145>>, <<119155,119170>>, <<119173,119179>>, <<119210,119213>>,
    <<119362,119364>>, <<121344,121398>>, <<121403,121452>>, <<121461,121461>>, <<121476,121476>>, <<121499,121503>>, <<121505,121519>>,
    <<122880,122886>>, <<122888,122904>>, <<122907,122913>>, <<122915,122916>>, <<122918,122922>>, <<123184,123197>>, <<123566,123566>>,
    <<123628,123631>>, <<125136,125142>>, <<125252,125259>>, <<127995,127999>>, <<917505,917505>>, <<917536,917631>>, <<917760,917999>> }

InRanges(ranges, c) == \E r \in ranges : r[1] <= c /\ c <= r[2]

\* The image of c under a table of ranges and a table of special cases.
MapChar(ranges, special, c) ==
    IF \E p \in special : p[1] = c
    THEN (CHOOSE p \in special : p[1] = c)[2]
    ELSE IF \E r \in ranges : r[1] <= c /\ c <= r[2] /\ (c - r[1]) % r[3] = 0
    THEN << c + (CHOOSE r \in ranges :
                    r[1] <= c /\ c <= r[2] /\ (c - r[1]) % r[3] = 0)[4] >>
    ELSE <<c>>

\* The lower-case form of one code point, without regard to its context.
ToLowerFull(c) ==
    IF c < 128 THEN << IF 65 <= c /\ c <= 90 THEN c + 32 ELSE c >>
    ELSE MapChar(LowerRanges, LowerSpecial, c)

\* The title-case form of one code point.
ToTitleFull(c) ==
    IF c < 128 THEN << IF 97 <= c /\ c <= 122 THEN c - 32 ELSE c >>
    ELSE MapChar(TitleRanges, TitleSpecial, c)

\* Whether the capital sigma at s[i] ends a word: a cased letter before it and
\* none after it, case-ignorable characters skipped.
FinalSigma(s, i) ==
    LET before == {j \in 1..(i - 1) : ~InRanges(IgnorableRanges, s[j])}
        after == {j \in (i + 1)..Len(s) : ~InRanges(IgnorableRanges, s[j])}
    IN  /\ before # {}
        /\ InRanges(CasedRanges, s[CHOOSE j \in before : \A k \in before : k <= j])
        /\ \/ after = {}
           \/ ~InRanges(CasedRanges, s[CHOOSE j \in after : \A k \in after : j <= k])

\* The lower-case form of s[i] within s.
LowerChar(s, i) ==
    IF s[i] = 931 THEN << IF FinalSigma(s, i) THEN 962 ELSE 963 >>
    ELSE ToLowerFull(s[i])

RECURSIVE Flatten(_)
Flatten(pieces) ==
    IF pieces = <<>> THEN <<>> ELSE Head(pieces) \o Flatten(Tail(pieces))

\* str.lower()
lower(s) == Flatten([i \in 1..Len(s) |-> LowerChar(s, i)])

\* str.capitalize(): first character title-cased, the rest lower-cased.
capitalize(s) ==
    IF s = <<>> THEN <<>>
    ELSE ToTitleFull(s[1]) \o Flatten([i \in 1..(Len(s) - 1) |-> LowerChar(s, i + 1)])

\* str.strip(): leading and trailing whitespace removed.
strip(s) ==
    LET inner == {i \in 1..Len(s) : s[i] \notin Whitespace}
    IN  IF inner = {} THEN <<>>
        ELSE LET lo == CHOOSE i \in inner : \A j \in inner : i <= j
                 hi == CHOOSE i \in inner : \A j \in inner : j <= i
             IN  SubSeq(s, lo, hi)

\* sub in s
contains(s, sub) ==
    \E i \in 1..(Len(s) - Len(sub) + 1) : SubSeq(s, i, i + Len(sub) - 1) = sub

\* str.split("\n"): the pieces between newlines; the empty string gives [""].
RECURSIVE SplitFrom(_, _, _)
SplitFrom(s, i, cur) ==
    IF i > Len(s) THEN <<cur>>
    ELSE IF s[i] = NewlineChar THEN <<cur>> \o SplitFrom(s, i + 1, <<>>)
    ELSE SplitFrom(s, i + 1, Append(cur, s[i]))

split(s) == SplitFrom(s, 1, <<>>)

\* The value that stands for a raised IndexError.
IndexError == <<-2>>

\* arr[idx] of a Python list: 0-based, negative indices count from the end.
PyIndex(arr, idx) ==
    IF idx >= 0 /\ idx < Len(arr) THEN arr[idx + 1]
    ELSE IF idx < 0 /\ -idx <= Len(arr) THEN arr[Len(arr) + idx + 1]
    ELSE IndexError

NA == Str(<<"N","A">>)

\* x or "NA"
OrNA(x) == IF x = None \/ x = <<>> THEN NA ELSE x

(***************************************************************************)
(* Data extraction helpers.                                                *)
(***************************************************************************)
CU_FT == Str(<<"c","u"," ","f","t">>)
LB_FT == Str(<<"l","b","-","f","t">>)

safe_get(arr, idx) == IF idx < Len(arr) THEN PyIndex(arr, idx) ELSE None

\* One iteration of the scan: acc = <<cargo_cu_ft, torque_lb_ft>>.
ScanLine_Independent(acc, line) ==
    LET t == strip(line)
    IN  << IF contains(lower(t), CU_FT) THEN t ELSE acc[1],
           IF contains(lower(t), LB_FT) THEN t ELSE acc[2] >>

ScanLine(acc, line) ==
    LET t == strip(line)
    IN  IF contains(lower(t), CU_FT) THEN <<t, acc[2]>>
        ELSE IF contains(lower(t), LB_FT) THEN <<acc[1], t>>
        ELSE acc

RECURSIVE ScanFrom(_, _, _)
ScanFrom(texts, i, acc) ==
    IF i > Len(texts) THEN acc
    ELSE ScanFrom(texts, i + 1, ScanLine(acc, texts[i]))

extract_cargo_and_torque(texts) ==
    LET acc == ScanFrom(texts, 1, <<None, None>>)
    IN  <<OrNA(acc[1]), OrNA(acc[2])>>

MinLines_Draft == 9

MinLines == 6

RowKeys == {"Style", "Price", "MPG", "Horsepower", "Engine", "CargoRoom_cu_ft",
            "Torque_lb_ft", "0-60", "Top Speed", "Curb Weight"}

parse_style_card(text) ==
    LET texts == split(text)
    IN  IF Len(texts) < MinLines THEN None
        ELSE LET ct == extract_cargo_and_torque(texts)
             IN  [k \in RowKeys |->
                    CASE k = "Style"           -> safe_get(texts, 0)
                      [] k = "Price"           -> safe_get(texts, 1)
                      [] k = "MPG"             -> safe_get(texts, 2)
                      [] k = "Horsepower"      -> safe_get(texts, 3)
                      [] k = "Engine"          -> safe_get(texts, 4)
                      [] k = "CargoRoom_cu_ft" -> ct[1]
                      [] k = "Torque_lb_ft"    -> ct[2]
                      [] k = "0-60"            -> safe_get(texts, -4)
                      [] k = "Top Speed"       -> safe_get(texts, -3)
                      [] k = "Curb Weight"     -> safe_get(texts, -2)]

(***************************************************************************)
(* Inputs of the parser: card texts of 1..MaxLines lines drawn from a pool *)
(* of lines: plain; a keyword in mixed case after a no-break space; a      *)
(* keyword in upper case before a vertical tab; both keywords on one line. *)
(***************************************************************************)
LinePool == { Str(<<"L","X">>),
              <<160>> \o Str(<<"9"," ","C","u"," ","F","t">>),
              Str(<<"8"," ","L","B","-","F","T">>) \o <<11>>,
              Str(<<"c","u"," ","f","t"," ","l","b","-","f","t">>) }

RECURSIVE JoinLines(_)
JoinLines(ls) ==
    IF Len(ls) = 1 THEN ls[1]
    ELSE ls[1] \o <<NewlineChar>> \o JoinLines(Tail(ls))

CardTexts == { JoinLines(ls) : ls \in UNION { [1..n -> LinePool] : n \in 1..MaxLines } }

(***************************************************************************)
(* The catalog and the pages of the site.                                  *)
(***************************************************************************)
BMW == Str(<<"b","m","w">>)
AUDI == Str(<<"a","u","d","i">>)
MERCEDES_BENZ == Str(<<"m","e","r","c","e","d","e","s","-","b","e","n","z">>)

\* The keys of CARS in insertion order.
CARS == <<BMW, AUDI, MERCEDES_BENZ>>

\* CARS[brand]
Models(brand) ==
    CASE brand = BMW  -> << Str(<<"3","-","s","e","r","i","e","s">>) >>
      [] brand = AUDI -> << Str(<<"a","4">>) >>
      [] OTHER        -> << Str(<<"c","-","c","l","a","s","s">>) >>

YEARS == <<2015, 2016>>

\* The (brand, model, yr) triples in the order the three nested loops visit them.
RECURSIVE TargetsFrom(_, _, _)
TargetsFrom(b, m, y) ==
    IF b > Len(CARS) THEN <<>>
    ELSE IF m > Len(Models(CARS[b])) THEN TargetsFrom(b + 1, 1, 1)
    ELSE IF y > Len(YEARS) THEN TargetsFrom(b, m + 1, 1)
    ELSE << <<CARS[b], Models(CARS[b])[m], YEARS[y]>> >> \o TargetsFrom(b, m, y + 1)

Targets == TargetsFrom(1, 1, 1)

NTargets == Len(Targets)

\* What the pages of the site can show: card texts of four, six and seven lines.
ShortCard == JoinLines(<< Str(<<"D","X">>), Str(<<"$","9">>), Str(<<"2","0">>),
                          Str(<<"h","p">>) >>)
CardA == JoinLines(<< Str(<<"L","X">>), Str(<<"$","1">>), Str(<<"3","0">>),
                      Str(<<"h","p">>), Str(<<"2","L">>),
                      <<160>> \o Str(<<"9"," ","C","u"," ","F","t">>) >>)
CardB == JoinLines(<< Str(<<"E","X">>), Str(<<"$","2">>), Str(<<"2","5">>),
                      Str(<<"h","p">>), Str(<<"3","L">>),
                      Str(<<"8"," ","L","B","-","F","T">>) \o <<11>>,
                      Str(<<"6","s">>) >>)
LongCards == <<CardA, CardB>>

\* What the card at a position of the region can show: the short card, or the
\* long card of the position (CardA at the first position, CardB at the second
\* and so on in turn).
CardPool(index) == {ShortCard, LongCards[(index % Len(LongCards)) + 1]}

\* Display texts of the category tabs of a page, by position: an em space
\* only, then a label between a no-break space and a vertical tab, and so on
\* in turn.
TabTexts == << <<8195>>, <<160>> \o Str(<<"S","U","V">>) \o <<11>> >>

TabText(index) == TabTexts[(index % Len(TabTexts)) + 1]

\* str(n) of a natural number
RECURSIVE Decimal(_)
Decimal(n) == IF n < 10 THEN <<48 + n>> ELSE Decimal(n \div 10) \o <<48 + (n % 10)>>

\* f"category_{idx}"
CategoryLabel(idx) == Str(<<"c","a","t","e","g","o","r","y","_">>) \o Decimal(idx)

\* tab.text.strip() or f"category_{idx}"
tab_label(text, idx) == IF strip(text) # <<>> THEN strip(text) ELSE CategoryLabel(idx)

\* Handles into the DOM.  attached tells whether the handle's element is still
\* in the DOM: the browser knows it, the crawler learns it by using the handle,
\* which raises StaleElementReferenceException when the element is gone.
\* epoch is the number of tab clicks made on the page when the handle was taken.
RegionHandle(attached, epoch) == <<"region", attached, epoch>>
TabHandle(attached, index) == <<"tab", attached, index>>
CardHandle(attached, index, epoch) == <<"card", attached, index, epoch>>

Attached(h) == h[2]

\* The handle h after its element was removed from the DOM.
Detach(h) == IF h = None THEN h ELSE [h EXCEPT ![2] = FALSE]

DetachAll(hs) == [i \in 1..Len(hs) |-> Detach(hs[i])]

VARIABLES
    card_text, row, parsed,   \* the parser's input, its result, whether it ran
    pc,              \* position in kbb_worker / scrape_kbb_styles
    ti,              \* 1-based position in Targets of the current target
    session,         \* "none", "open" or "quit": the browser session
    quits,           \* number of driver.quit() calls
    exc,             \* the exception in flight or raised, "None" when none
    page,            \* the DOM: [present, ntabs, view, epoch, pending]
    served,          \* cards the site has shown so far (bounded by MaxCards)
    tabbed,          \* category tabs the site has shown so far (bounded by MaxTabs)
    all_data,        \* kbb_worker: list of stamped per-target frames
    result,          \* kbb_worker's return value, None before it returns
    data,            \* scrape_kbb_styles: rows of the current page
    styles_section,  \* scrape_kbb_styles: handle returned by load_styles_section
    tabs,            \* scrape_kbb_styles: tabs
    idx,             \* scrape_kbb_styles: 0-based position in tabs
    category,        \* scrape_kbb_styles: label returned by activate_tab
    style_cards,     \* scrape_kbb_styles: handles returned by get_style_cards
    ci,              \* 1-based position in style_cards
    tab_category,    \* activate_tab: category
    previous_html,   \* activate_tab: baseline content
    seen_html,       \* activate_tab: content the change wait saw last
    cards_section,   \* get_style_cards: styles_section
    poll_section,    \* activate_tab: the element found by the current poll of the first wait
    tab_log,         \* history: what was done for the current tab, in order
    pass_start,      \* history: Len(data) when the current tab pass began
    pass_texts,      \* history: the card texts read in the current tab pass, in order
    counts,          \* history: [clicks, waits, fetches, reads] of the current page
    stale_read,      \* history: a region/card handle older than the last click was read
    use_after_quit,  \* history: the session was used after driver.quit()
    outcomes         \* history: per visited target, [status, rows]

pvars == <<card_text, row, parsed>>

cvars == <<pc, ti, session, quits, exc, page, served, tabbed, all_data, result, data,
           styles_section, tabs, idx, category, style_cards, ci, tab_category,
           previous_html, seen_html, cards_section, poll_section,
           tab_log, pass_start, pass_texts, counts,
           stale_read, use_after_quit, outcomes>>

vars == <<pvars, cvars>>

NoPending == -1

NoPage == [present |-> FALSE, ntabs |-> 0, view |-> 0, epoch |-> 0,
           pending |-> NoPending]
NoCounts == [clicks |-> 0, waits |-> 0, fetches |-> 0, reads |-> 0]

\* get_attribute("innerHTML") of the region: the view shown, and whether the
\* rest of the serialized content differs from what it was when the baseline
\* of the current activation was read.
InnerHTML(pg, other) == <<pg.view, other>>

CrawlIdle ==
    /\ pc = "start" /\ ti = 1 /\ session = "none" /\ quits = 0 /\ exc = "None"
    /\ page = NoPage /\ served = 0 /\ tabbed = 0 /\ all_data = <<>> /\ result = None
    /\ data = <<>> /\ styles_section = None /\ tabs = <<>> /\ idx = 0
    /\ category = None /\ style_cards = <<>> /\ ci = 1 /\ tab_category = None
    /\ previous_html = None /\ seen_html = None /\ cards_section = None /\ poll_section = None
    /\ tab_log = <<>> /\ pass_start = 0 /\ pass_texts = <<>>
    /\ counts = NoCounts /\ stale_read = FALSE /\ use_after_quit = FALSE
    /\ outcomes = <<>>

ParseIdle ==
    /\ card_text = <<>>
    /\ row = None
    /\ parsed = TRUE

ParseInit ==
    /\ card_text \in CardTexts
    /\ row = None
    /\ parsed = FALSE
    /\ CrawlIdle

ParseCard ==
    /\ ~parsed
    /\ row' = parse_style_card(card_text)
    /\ parsed' = TRUE
    /\ UNCHANGED <<card_text, cvars>>

ParseNext == ParseCard

SpecParse == ParseInit /\ [][ParseNext]_vars

(***************************************************************************)
(* kbb_worker and scrape_kbb_styles, one action per step.  Every call into *)
(* the browser is a step of its own; between two of them the browser may   *)
(* change the DOM (BrowserUpdate).                                         *)
(***************************************************************************)
get_style_tabs_NoSentinel(found) == found

\* tabs if tabs else [None]
get_style_tabs(found) == IF found # <<>> THEN found ELSE <<None>>

ContentChanged_Always(prev, cur) == TRUE

\* The condition of activate_tab's first wait: innerHTML != previous_html.
ContentChanged(prev, cur) == cur # prev

\* if row:
Truthy(r) == r # None

stamp_NoCapitalize(df, brand, model, yr) ==
    [i \in 1..Len(df) |->
        ("Brand" :> brand) @@ ("Model" :> model) @@ ("Year" :> yr) @@ df[i]]

\* df["Brand"] = brand.capitalize(); df["Model"] = model.capitalize(); df["Year"] = yr
stamp(df, brand, model, yr) ==
    [i \in 1..Len(df) |->
        ("Brand" :> capitalize(brand)) @@ ("Model" :> capitalize(model))
            @@ ("Year" :> yr) @@ df[i]]

\* pd.concat(all_data, ignore_index=True) if all_data else pd.DataFrame()
RECURSIVE concat(_)
concat(frames) == IF frames = <<>> THEN <<>> ELSE Head(frames) \o concat(Tail(frames))

\* Where an exception raised inside the try block of kbb_worker goes next.
RaiseTo == "finally"

Outcome(status, rows) == [status |-> status, rows |-> rows]

UsesSession == use_after_quit' = (use_after_quit \/ session = "quit")

\* The locals of scrape_kbb_styles and of get_style_cards, and the history of
\* the current pass, are as before the call.
NoLocals ==
    /\ data' = <<>> /\ styles_section' = None /\ tabs' = <<>> /\ idx' = 0
    /\ category' = None /\ style_cards' = <<>> /\ ci' = 1 /\ tab_category' = None
    /\ cards_section' = None /\ poll_section' = None
    /\ pass_start' = 0 /\ pass_texts' = <<>> /\ counts' = NoCounts

\* An exception leaves scrape_kbb_styles, whose locals end with it: nothing in
\* it or in the loops of kbb_worker catches it.
Raise(e, status) ==
    /\ exc' = e
    /\ pc' = RaiseTo
    /\ outcomes' = Append(outcomes, Outcome(status, <<>>))
    /\ NoLocals

\* driver = scd(): setup_chrome_driver returns a session; or webdriver.Chrome
\* raises and there is no session; or the session is constructed and
\* set_window_size or execute_script raises.  Either failure leaves
\* setup_chrome_driver as RuntimeError, before the try block of kbb_worker, and
\* nothing quits the session constructed in the second case.
Construct ==
    /\ pc = "start"
    /\ \/ /\ session' = "open"
          /\ pc' = "loop"
          /\ exc' = exc
       \/ /\ session' = session
          /\ pc' = "raised"
          /\ exc' = "RuntimeError"
       \/ /\ session' = "open"
          /\ pc' = "raised"
          /\ exc' = "RuntimeError"
    /\ UNCHANGED <<pvars, ti, quits, page, served, tabbed, all_data, result, data,
                   styles_section, tabs, idx, category, style_cards, ci, tab_category,
                   previous_html, seen_html, cards_section, poll_section, tab_log,
                   pass_start, pass_texts, counts, stale_read, use_after_quit,
                   outcomes>>

\* Head of the nested for loops: the next target, or the end of the try block.
LoopHead ==
    /\ pc = "loop"
    /\ pc' = IF ti <= NTargets THEN "load" ELSE "finally"
    /\ UNCHANGED <<pvars, ti, session, quits, exc, page, served, tabbed, all_data,
                   result, data, styles_section, tabs, idx, category, style_cards, ci,
                   tab_category, previous_html, seen_html, cards_section, poll_section,
                   tab_log, pass_start, pass_texts, counts, stale_read, use_after_quit,
                   outcomes>>

\* scrape_kbb_styles: data = []; load_styles_section(driver, wait, url).
LoadStylesSection ==
    /\ pc = "load"
    /\ UsesSession
    /\ \E present \in BOOLEAN, n \in 0..(MaxTabs - tabbed) :
       \E active \in 0..(IF n = 0 THEN 0 ELSE n - 1) :
          /\ page' = [NoPage EXCEPT !.present = present, !.ntabs = n,
                                    !.view = active]
          /\ tabbed' = tabbed + n
          /\ IF present
             THEN /\ data' = <<>>
                  /\ styles_section' = RegionHandle(TRUE, 0)
                  /\ pc' = "tabs"
                  /\ UNCHANGED <<exc, outcomes, tabs, idx, category, style_cards, ci,
                                 tab_category, cards_section, poll_section, pass_start,
                                 pass_texts, counts>>
             ELSE Raise("TimeoutException", "PageUnavailable")
    /\ tab_log' = <<>>
    /\ previous_html' = None
    /\ seen_html' = None
    /\ stale_read' = FALSE
    /\ UNCHANGED <<pvars, ti, session, quits, served, all_data, result>>

\* The crawler is on a loaded page and has a call into the browser ahead of
\* it on this page; what the browser does to a page after the last call is
\* not observed.
OnPage ==
    \/ pc \in {"tabs", "baseline", "click", "wait_change", "poll_read", "wait_present", "cards",
               "find_cards"}
    \/ pc = "tab_loop" /\ idx < Len(tabs)
    \/ pc = "card_loop" /\ ci <= Len(style_cards)

SomeAttached(hs) == \E i \in 1..Len(hs) : hs[i] # None /\ Attached(hs[i])

\* The cards shown are replaced: every card handle taken before is detached.
ReplaceCards ==
    /\ style_cards' = DetachAll(style_cards)
    /\ UNCHANGED <<styles_section, tabs, cards_section, poll_section>>

\* The region's element is replaced, with the tab buttons and cards in it.
ReplaceRegion ==
    /\ styles_section' = Detach(styles_section)
    /\ cards_section' = Detach(cards_section)
    /\ poll_section' = Detach(poll_section)
    /\ tabs' = DetachAll(tabs)
    /\ style_cards' = DetachAll(style_cards)

\* The browser changes the DOM while the crawler is on the page: it applies
\* the click it was sent by showing the clicked tab's cards (a click on the tab
\* already shown changes nothing), or re-renders the cards, or the whole
\* region, on its own.  A re-render that detaches no handle the crawler holds
\* leaves the state as it is and is not a step.
BrowserUpdate ==
    /\ OnPage
    /\ \/ /\ page.pending # NoPending
          /\ page' = [page EXCEPT !.pending = NoPending, !.view = page.pending]
          /\ IF page.pending = page.view
             THEN UNCHANGED <<styles_section, tabs, cards_section, poll_section,
                             style_cards>>
             ELSE ReplaceCards
       \/ /\ SomeAttached(style_cards)
          /\ ReplaceCards
          /\ UNCHANGED page
       \/ /\ SomeAttached(<<styles_section, cards_section, poll_section>> \o tabs
                           \o style_cards)
          /\ ReplaceRegion
          /\ UNCHANGED page
    /\ UNCHANGED <<pvars, pc, ti, session, quits, exc, served, tabbed, all_data, result,
                   data, idx, category, ci, tab_category, previous_html, seen_html,
                   tab_log, pass_start, pass_texts, counts, stale_read, use_after_quit,
                   outcomes>>

\* tabs = get_style_tabs(styles_section); the for loop over tabs starts.
GetStyleTabs ==
    /\ pc = "tabs"
    /\ UsesSession
    /\ IF ~Attached(styles_section)
       THEN Raise("StaleElementReferenceException", "StaleElement")
       ELSE /\ tabs' = get_style_tabs([i \in 1..page.ntabs |->
                                          TabHandle(TRUE, i - 1)])
            /\ idx' = 0
            /\ pc' = "tab_loop"
            /\ UNCHANGED <<exc, outcomes, data, styles_section, category, style_cards,
                           ci, tab_category, cards_section, poll_section, pass_start,
                           pass_texts, counts>>
    /\ UNCHANGED <<pvars, ti, session, quits, page, served, tabbed, all_data, result,
                   previous_html, seen_html, tab_log, stale_read>>

\* category = activate_tab(driver, wait, styles_section, tab, idx), up to
\* tab.text: the sentinel returns None at once.
ActivateTab ==
    /\ pc = "tab_loop"
    /\ idx < Len(tabs)
    /\ LET tab == tabs[idx + 1] IN
       IF tab = None
       THEN /\ category' = None
            /\ pc' = "cards"
            /\ tab_log' = <<"sentinel">>
            /\ pass_start' = Len(data)
            /\ pass_texts' = <<>>
            /\ UNCHANGED <<exc, outcomes, data, styles_section, tabs, idx, style_cards,
                           ci, tab_category, cards_section, poll_section, counts>>
            /\ UNCHANGED use_after_quit
       ELSE /\ UsesSession
            /\ tab_log' = <<>>
            /\ IF ~Attached(tab)
               THEN Raise("StaleElementReferenceException", "StaleElement")
               ELSE /\ tab_category' = tab_label(TabText(tab[3]), idx)
                    /\ pc' = "baseline"
                    /\ pass_start' = Len(data)
                    /\ pass_texts' = <<>>
                    /\ UNCHANGED <<exc, outcomes, data, styles_section, tabs, idx,
                                   category, style_cards, ci, cards_section,
                                   poll_section, counts>>
    /\ UNCHANGED <<pvars, ti, session, quits, page, served, tabbed, all_data, result,
                   previous_html, seen_html, stale_read>>

\* previous_html = styles_section.get_attribute("innerHTML")
ReadBaseline ==
    /\ pc = "baseline"
    /\ UsesSession
    /\ IF ~Attached(styles_section)
       THEN /\ Raise("StaleElementReferenceException", "StaleElement")
            /\ UNCHANGED <<previous_html, tab_log, stale_read>>
       ELSE /\ previous_html' = InnerHTML(page, FALSE)
            /\ stale_read' = (stale_read \/ styles_section[3] < page.epoch)
            /\ tab_log' = Append(tab_log, "baseline")
            /\ pc' = "click"
            /\ UNCHANGED <<exc, outcomes, data, styles_section, tabs, idx, category,
                           style_cards, ci, tab_category, cards_section, poll_section,
                           pass_start, pass_texts, counts>>
    /\ UNCHANGED <<pvars, ti, session, quits, page, served, tabbed, all_data, result,
                   seen_html>>

\* driver.execute_script("arguments[0].click();", tab)
ClickTab ==
    /\ pc = "click"
    /\ UsesSession
    /\ IF ~Attached(tabs[idx + 1])
       THEN /\ Raise("StaleElementReferenceException", "StaleElement")
            /\ UNCHANGED <<page, tab_log>>
       ELSE /\ page' = [page EXCEPT !.epoch = @ + 1, !.pending = idx]
            /\ tab_log' = Append(tab_log, "click")
            /\ counts' = [counts EXCEPT !.clicks = @ + 1]
            /\ pc' = "wait_change"
            /\ UNCHANGED <<exc, outcomes, data, styles_section, tabs, idx, category,
                           style_cards, ci, tab_category, cards_section, poll_section,
                           pass_start, pass_texts>>
    /\ UNCHANGED <<pvars, ti, session, quits, served, tabbed, all_data, result,
                   previous_html, seen_html, stale_read>>

\* wait.until(lambda d: d.find_element(By.ID, "styles").get_attribute("innerHTML")
\* != previous_html), first half of a poll: find_element.
WaitChange ==
    /\ pc = "wait_change"
    /\ UsesSession
    /\ poll_section' = RegionHandle(TRUE, page.epoch)
    /\ pc' = "poll_read"
    /\ UNCHANGED <<pvars, ti, session, quits, exc, page, served, tabbed, all_data,
                   result, data, styles_section, tabs, idx, category, style_cards, ci,
                   tab_category, previous_html, seen_html, cards_section, tab_log,
                   pass_start, pass_texts, counts, stale_read, outcomes>>

\* Second half of the poll: get_attribute("innerHTML") on the element found
\* and the comparison.  wait.until ignores NoSuchElementException only, so a
\* region replaced since find_element ends the wait with
\* StaleElementReferenceException.  A poll that sees the content differ ends
\* the wait; one that sees it equal is followed by another poll, or by
\* TimeoutException when the 15 seconds are over.
WaitChangeRead ==
    /\ pc = "poll_read"
    /\ UsesSession
    /\ IF ~Attached(poll_section)
       THEN /\ Raise("StaleElementReferenceException", "StaleElement")
            /\ UNCHANGED <<seen_html, tab_log>>
       ELSE \E other \in BOOLEAN :
               /\ seen_html' = InnerHTML(page, other)
               /\ IF ContentChanged(previous_html, InnerHTML(page, other))
                  THEN /\ tab_log' = Append(tab_log, "changed")
                       /\ counts' = [counts EXCEPT !.waits = @ + 1]
                       /\ poll_section' = None
                       /\ pc' = "wait_present"
                       /\ UNCHANGED <<exc, outcomes, data, styles_section, tabs, idx,
                                      category, style_cards, ci, tab_category,
                                      cards_section, pass_start, pass_texts>>
                  ELSE \/ /\ tab_log' = Append(tab_log, "change_timeout")
                          /\ Raise("TimeoutException", "NavigationTimeout")
                       \/ /\ poll_section' = None
                          /\ pc' = "wait_change"
                          /\ UNCHANGED tab_log
                          /\ UNCHANGED <<exc, outcomes, data, styles_section, tabs, idx,
                                         category, style_cards, ci, tab_category,
                                         cards_section, pass_start, pass_texts, counts>>
    /\ UNCHANGED <<pvars, ti, session, quits, page, served, tabbed, all_data, result,
                   previous_html, stale_read>>

\* wait.until(presence of a card-like element); return category.
WaitPresent ==
    /\ pc = "wait_present"
    /\ UsesSession
    /\ \E rendered \in BOOLEAN :
          IF rendered
          THEN /\ tab_log' = Append(tab_log, "present")
               /\ counts' = [counts EXCEPT !.waits = @ + 1]
               /\ category' = tab_category
               /\ tab_category' = None
               /\ pc' = "cards"
               /\ UNCHANGED <<exc, outcomes, data, styles_section, tabs, idx,
                              style_cards, ci, cards_section, poll_section, pass_start,
                              pass_texts>>
          ELSE /\ tab_log' = Append(tab_log, "present_timeout")
               /\ Raise("TimeoutException", "RenderTimeout")
    \* the locals of activate_tab end with the call
    /\ previous_html' = None
    /\ seen_html' = None
    /\ UNCHANGED <<pvars, ti, session, quits, page, served, tabbed, all_data, result,
                   stale_read>>

\* get_style_cards: styles_section = driver.find_element(By.ID, "styles")
FindStylesSection ==
    /\ pc = "cards"
    /\ UsesSession
    /\ cards_section' = RegionHandle(TRUE, page.epoch)
    /\ pc' = "find_cards"
    /\ UNCHANGED <<pvars, ti, session, quits, exc, page, served, tabbed, all_data,
                   result, data, styles_section, tabs, idx, category, style_cards, ci,
                   tab_category, previous_html, seen_html, poll_section, tab_log,
                   pass_start, pass_texts, counts, stale_read, outcomes>>

\* style_cards = styles_section.find_elements(...) on the region just found.
GetStyleCards ==
    /\ pc = "find_cards"
    /\ UsesSession
    /\ IF ~Attached(cards_section)
       THEN /\ Raise("StaleElementReferenceException", "StaleElement")
            /\ UNCHANGED <<served, tab_log, stale_read>>
       ELSE /\ \E n \in 0..(MaxCards - served) :
                  /\ style_cards' = [i \in 1..n |->
                                        CardHandle(TRUE, i - 1, page.epoch)]
                  /\ served' = served + n
            /\ ci' = 1
            /\ counts' = [counts EXCEPT !.fetches = @ + 1]
            /\ tab_log' = Append(tab_log, "fetch")
            /\ stale_read' = (stale_read \/ cards_section[3] < page.epoch)
            /\ cards_section' = None
            /\ pc' = "card_loop"
            /\ UNCHANGED <<exc, outcomes, data, styles_section, tabs, idx, category,
                           tab_category, poll_section, pass_start, pass_texts>>
    /\ UNCHANGED <<pvars, ti, session, quits, page, tabbed, all_data, result,
                   previous_html, seen_html>>

\* Body of `for card in style_cards`: row = parse_style_card(card); if row:
\* append.  card.text is what the browser shows in the card's element.
ParseCardStep ==
    /\ pc = "card_loop"
    /\ ci <= Len(style_cards)
    /\ UsesSession
    /\ LET card == style_cards[ci] IN
       IF ~Attached(card)
       THEN /\ Raise("StaleElementReferenceException", "StaleElement")
            /\ UNCHANGED <<tab_log, stale_read>>
       ELSE /\ \E text \in CardPool(card[3]) :
                  /\ pass_texts' = Append(pass_texts, text)
                  /\ LET r == parse_style_card(text)
                     IN  data' = IF Truthy(r) THEN Append(data, r) ELSE data
            /\ stale_read' = (stale_read \/ card[4] < page.epoch)
            /\ ci' = ci + 1
            /\ counts' = [counts EXCEPT !.reads = @ + 1]
            /\ tab_log' = Append(tab_log, "card")
            /\ pc' = pc
            /\ UNCHANGED <<exc, outcomes, styles_section, tabs, idx, category,
                           style_cards, tab_category, cards_section, poll_section,
                           pass_start>>
    /\ UNCHANGED <<pvars, ti, session, quits, page, served, tabbed, all_data, result,
                   previous_html, seen_html>>

\* The cards of this tab are exhausted: the next tab.
NextTab ==
    /\ pc = "card_loop"
    /\ ci > Len(style_cards)
    /\ idx' = idx + 1
    /\ pc' = "tab_loop"
    /\ UNCHANGED <<pvars, ti, session, quits, exc, page, served, tabbed, all_data,
                   result, data, styles_section, tabs, category, style_cards, ci,
                   tab_category, previous_html, seen_html, cards_section, poll_section,
                   tab_log, pass_start, pass_texts, counts, stale_read, use_after_quit,
                   outcomes>>

\* scrape_kbb_styles returns pd.DataFrame(data); kbb_worker stamps and keeps it.
ScrapeReturn ==
    /\ pc = "tab_loop"
    /\ idx >= Len(tabs)
    /\ LET t == Targets[ti] IN
       all_data' = IF data # <<>>
                   THEN Append(all_data, stamp(data, t[1], t[2], t[3]))
                   ELSE all_data
    /\ outcomes' = Append(outcomes, Outcome("returned", data))
    /\ ti' = ti + 1
    /\ pc' = "loop"
    /\ exc' = exc
    \* the locals of scrape_kbb_styles end with the call
    /\ NoLocals
    /\ tab_log' = <<>>
    /\ UNCHANGED <<pvars, session, quits, page, served, tabbed, result, previous_html,
                   seen_html, stale_read, use_after_quit>>

\* finally: driver.quit(), which closes the browser and its page; then the
\* return, or the exception goes on to the caller.
Finally ==
    /\ pc = "finally"
    /\ quits' = quits + 1
    /\ session' = "quit"
    /\ page' = NoPage
    /\ UsesSession
    /\ IF exc = "None"
       THEN /\ result' = concat(all_data)
            /\ pc' = "done"
       ELSE /\ pc' = "raised"
            /\ UNCHANGED result
    /\ UNCHANGED <<pvars, ti, exc, served, tabbed, all_data, data, styles_section, tabs,
                   idx, category, style_cards, ci, tab_category, previous_html,
                   seen_html, cards_section, poll_section, tab_log, pass_start,
                   pass_texts, counts, stale_read, outcomes>>

Init == ParseIdle /\ CrawlIdle

Next ==
    \/ Construct
    \/ LoopHead
    \/ LoadStylesSection
    \/ BrowserUpdate
    \/ GetStyleTabs
    \/ ActivateTab
    \/ ReadBaseline
    \/ ClickTab
    \/ WaitChange
    \/ WaitChangeRead
    \/ WaitPresent
    \/ FindStylesSection
    \/ GetStyleCards
    \/ ParseCardStep
    \/ NextTab
    \/ ScrapeReturn
    \/ Finally

Spec == Init /\ [][Next]_vars

(***************************************************************************)
(* Properties of the parser (checked under SpecParse).                     *)
(***************************************************************************)
\* The parser ran on a card of at least six lines (five newlines).
ParsedLongCard ==
    parsed /\ Cardinality({i \in 1..Len(card_text) : card_text[i] = NewlineChar}) >= 5

\* C4: for every card of n >= 6 lines, 0-60, Top Speed and Curb Weight are the
\* last three lines of the card (lines n-3, n-2, n-1, 0-based).
C4_TailIsLastThreeLines ==
    ParsedLongCard =>
        LET CardLines == split(card_text)
            n == Len(CardLines)
        IN
        /\ row["0-60"] = CardLines[n - 2]
        /\ row["Top Speed"] = CardLines[n - 1]
        /\ row["Curb Weight"] = CardLines[n]

HasCuFt(line) == contains(lower(line), CU_FT)
HasLbFt(line) == contains(lower(line), LB_FT)
Last(S) == CHOOSE i \in S : \A j \in S : j <= i

\* C5 as stated: for every card of at least six lines, CargoRoom_cu_ft is one
\* of the lines after the first five that contain "cu ft" in any letter case,
\* "NA" when there is none, and Torque_lb_ft likewise for "lb-ft",
\* independently of the other field.
C5_KeywordFieldsFromRemainingLines ==
    ParsedLongCard =>
        LET CardLines == split(card_text)
            rest == 6..Len(CardLines)
            cu == {i \in rest : HasCuFt(CardLines[i])}
            lb == {i \in rest : HasLbFt(CardLines[i])}
        IN  /\ IF cu = {} THEN row["CargoRoom_cu_ft"] = NA
               ELSE row["CargoRoom_cu_ft"] \in {CardLines[i] : i \in cu}
            /\ IF lb = {} THEN row["Torque_lb_ft"] = NA
               ELSE row["Torque_lb_ft"] \in {CardLines[i] : i \in lb}

\* C5 amended: for every card of at least six lines, CargoRoom_cu_ft is the
\* whitespace-stripped text of the last of ALL the card's lines (the first five
\* included) that contains "cu ft" in any letter case, "NA" when no line does;
\* Torque_lb_ft is the stripped text of the last line that contains "lb-ft" in
\* any letter case and does not contain "cu ft", "NA" when there is no such
\* line: a line with both keywords counts for CargoRoom only.
C5_KeywordFieldsFromAllLines ==
    ParsedLongCard =>
        LET CardLines == split(card_text)
            all == 1..Len(CardLines)
            cu == {i \in all : HasCuFt(CardLines[i])}
            lb == {i \in all \ cu : HasLbFt(CardLines[i])}
        IN  /\ row["CargoRoom_cu_ft"] =
                  IF cu = {} THEN NA ELSE strip(CardLines[Last(cu)])
            /\ row["Torque_lb_ft"] =
                  IF lb = {} THEN NA ELSE strip(CardLines[Last(lb)])

\* A parsed card whose only keyword line carries both keywords and stands
\* among the first five lines: CargoRoom takes it, Torque is "NA".
C5_Witness ==
    /\ ParsedLongCard
    /\ LET CardLines == split(card_text) IN
       \E i \in 1..5 :
          /\ HasCuFt(CardLines[i]) /\ HasLbFt(CardLines[i])
          /\ \A j \in 1..Len(CardLines) :
                j # i => ~HasCuFt(CardLines[j]) /\ ~HasLbFt(CardLines[j])
          /\ row["CargoRoom_cu_ft"] = strip(CardLines[i])
    /\ row["Torque_lb_ft"] = NA

(***************************************************************************)
(* Properties of the crawl (checked under Spec).                           *)
(***************************************************************************)
Terminated == pc \in {"done", "raised"}

RECURSIVE RowsBefore(_)
\* Number of rows returned for the targets before the i-th visited one.
RowsBefore(i) == IF i <= 1 THEN 0 ELSE RowsBefore(i - 1) + Len(outcomes[i - 1].rows)

\* C1: a target whose wait for the content region times out yields an empty
\* result without an exception, and the crawl goes on through every later
\* target of the catalog.
C1_PageUnavailableIsSkipped ==
    \A i \in 1..Len(outcomes) :
        outcomes[i].status = "PageUnavailable" =>
            /\ exc = "None"
            /\ Terminated => pc = "done" /\ Len(outcomes) = NTargets

\* C2: after a tab activation's content-change wait timed out on a target,
\* the crawl still visits every later target, and the rows of the targets
\* scraped before are in the returned table.
C2_NavigationTimeoutIsSkipped ==
    \A i \in 1..Len(outcomes) :
        (outcomes[i].status = "NavigationTimeout" /\ Terminated) =>
            /\ pc = "done"
            /\ Len(outcomes) = NTargets
            /\ result # None
            /\ Len(result) = RowsBefore(NTargets + 1)

\* C3: once the session was constructed it is released at most once, never
\* used after its release, and released exactly once by the time kbb_worker
\* has returned or raised.
C3_SessionReleasedExactlyOnce ==
    session # "none" =>
        /\ quits <= 1
        /\ ~use_after_quit
        /\ (quits = 1) = (session = "quit")
        /\ Terminated => quits = 1

\* Number of text lines of a card: one more than its newlines.
LineCount(text) == 1 + Cardinality({i \in 1..Len(text) : text[i] = NewlineChar})
IsLong(text) == LineCount(text) >= 6

\* C6: during and after a tab pass, the rows appended by the pass are the
\* records of the cards read so far that have at least six lines, one each and
\* in card order, each with the ten parsed fields; shorter cards add nothing.
C6_PassKeepsExactlyLongCards ==
    pc = "card_loop" =>
        LET long == SelectSeq(pass_texts, IsLong)
            new == SubSeq(data, pass_start + 1, Len(data))
        IN  /\ Len(pass_texts) = ci - 1
            /\ Len(new) = Len(long)
            /\ \A i \in 1..Len(new) :
                  /\ DOMAIN new[i] = RowKeys
                  /\ new[i] = parse_style_card(long[i])

\* A pass over two cards ended: the first had four lines and was dropped, the
\* second was kept.
C6_Witness ==
    /\ pc = "card_loop"
    /\ ci = 3
    /\ Len(style_cards) = 2
    /\ ~IsLong(pass_texts[1])
    /\ IsLong(pass_texts[2])
    /\ Len(data) = pass_start + 1

\* The stamps the catalog order prescribes, written out.
ExpectedStamp ==
    << << Str(<<"B","m","w">>), Str(<<"3","-","s","e","r","i","e","s">>), 2015 >>,
       << Str(<<"B","m","w">>), Str(<<"3","-","s","e","r","i","e","s">>), 2016 >>,
       << Str(<<"A","u","d","i">>), Str(<<"A","4">>), 2015 >>,
       << Str(<<"A","u","d","i">>), Str(<<"A","4">>), 2016 >>,
       << Str(<<"M","e","r","c","e","d","e","s","-","b","e","n","z">>),
          Str(<<"C","-","c","l","a","s","s">>), 2015 >>,
       << Str(<<"M","e","r","c","e","d","e","s","-","b","e","n","z">>),
          Str(<<"C","-","c","l","a","s","s">>), 2016 >> >>

\* C7: when kbb_worker returns, every target was visited and the table is the
\* per-target result sets one after the other in catalog order, each row
\* stamped with its target's capitalized Brand and Model and its Year; the row
\* count is the sum of the result sets' sizes (zero when nothing was scraped).
C7_TableIsStampedConcatenation ==
    pc = "done" =>
        /\ Len(outcomes) = NTargets
        /\ Len(result) = RowsBefore(NTargets + 1)
        /\ \A i \in 1..NTargets :
           \A j \in 1..Len(outcomes[i].rows) :
              LET r == result[RowsBefore(i) + j] IN
              /\ r["Brand"] = ExpectedStamp[i][1]
              /\ r["Model"] = ExpectedStamp[i][2]
              /\ r["Year"] = ExpectedStamp[i][3]
              /\ \A k \in RowKeys : r[k] = outcomes[i].rows[j][k]

\* kbb_worker returned two rows that come from two brands, with empty targets
\* between them.
C7_Witness ==
    /\ pc = "done"
    /\ Len(result) = 2
    /\ outcomes[1].rows = <<>>
    /\ Len(outcomes[2].rows) = 1
    /\ outcomes[3].rows = <<>>
    /\ result[1]["Brand"] = Str(<<"B","m","w">>)
    /\ result[2]["Brand"] = Str(<<"M","e","r","c","e","d","e","s","-","b","e","n","z">>)

\* C8: on a page without category tabs the tab list is the single sentinel,
\* no click and no wait is made, the category label is None, and when the page
\* is finished there was exactly one pass, in which every card was read once.
C8_NoTabsMeansOnePass ==
    (pc \in {"tab_loop", "cards", "find_cards", "card_loop"} /\ page.ntabs = 0) =>
        /\ tabs = <<None>>
        /\ counts.clicks = 0
        /\ counts.waits = 0
        /\ pc \in {"cards", "find_cards", "card_loop"} => category = None /\ idx = 0
        /\ (pc = "tab_loop" /\ idx >= Len(tabs)) =>
              /\ idx = 1
              /\ category = None
              /\ counts.fetches = 1
              /\ counts.reads = Len(style_cards)
              /\ Len(pass_texts) = Len(style_cards)

\* The page of the second target had no tabs and is finished: its two cards
\* were read in one pass.
C8_Witness ==
    /\ pc = "tab_loop"
    /\ page.ntabs = 0
    /\ idx = 1
    /\ ti = 2
    /\ counts.fetches = 1
    /\ counts.reads = 2

\* C9: no read goes through a content-region or card handle taken before the
\* most recent tab activation.
C9_NoReadThroughOldHandle == ~stale_read

InTabLog(e) == \E i \in 1..Len(tab_log) : tab_log[i] = e

Activated == <<"baseline", "click", "changed", "present">>

\* C10: for a tab that is not the sentinel, cards are fetched and read only
\* after the baseline was recorded, the tab clicked, the content seen to differ
\* from the baseline and a card seen to exist, in this order; when the content
\* did not change, the activation ends in a timeout and no cards are fetched or
\* read for the tab.
C10_CardsOnlyAfterChangeAndPresence ==
    /\ (pc \in {"cards", "find_cards", "card_loop"} \/ InTabLog("fetch")
            \/ InTabLog("card")) =>
          \/ /\ tab_log[1] = "sentinel"
             /\ pc \in {"cards", "find_cards", "card_loop"} => tabs[idx + 1] = None
          \/ Len(tab_log) >= 4 /\ SubSeq(tab_log, 1, 4) = Activated
    /\ pc = "wait_present" =>
          /\ tab_log = SubSeq(Activated, 1, 3)
          /\ seen_html # previous_html
    /\ InTabLog("change_timeout") =>
          /\ seen_html = previous_html
          /\ tab_log = <<"baseline", "click", "change_timeout">>
          /\ exc = "TimeoutException"
          /\ pc \in {"finally", "raised"}

\* The cards of the second tab of a page were read after its activation,
\* which waited while the click on the tab was not yet applied.
C10_Witness ==
    /\ page.ntabs = 2
    /\ idx = 1
    /\ pc = "card_loop"
    /\ tab_log = Activated \o <<"fetch", "card">>
    /\ page.view = 1
    /\ page.pending = NoPending
    /\ Attached(style_cards[1])

====
